---- MODULE Spec2Model ----
(***************************************************************************)
(* Arbor Porphyriana: the Van Emde Boas index (Van_Emde_Boas) and the      *)
(* label registry (Arbor) of main.cpp.                                     *)
(*                                                                         *)
(* A Van_Emde_Boas node is the record                                      *)
(*   [universe_size, minimum, maximum, summary, clusters]                  *)
(* where clusters is a function over 0..no_clusters-1 (the vector) and     *)
(* summary is nullptr for the base case.                                   *)
(***************************************************************************)
EXTENDS Integers, Sequences, FiniteSets, TLC

\* ------------------------------ bounds ---------------------------------
MaxU == 6          \* universe sizes 1..MaxU are constructed
MaxInserts == 4    \* insert calls issued on one index by the driver
MaxEdges == 2      \* connect_parent_child calls that reach the adj update

Labels == {"a", "b", "c", "d"}

VARIABLES U, veb, id_of, label_of, adj, inserted, result

vars == <<U, veb, id_of, label_of, adj, inserted, result>>

\* ------------------------------ helpers --------------------------------
nullptr == [null |-> TRUE]

Range(s) == {s[i] : i \in 1..Len(s)}

\* C++ integer division and remainder truncate toward zero.
c_div(x, d) == IF x >= 0 THEN x \div d ELSE -((-x) \div d)
c_mod(x, m) == IF x >= 0 THEN x % m ELSE -((-x) % m)

\* (int)ceil(sqrt((double)size)), exact for the sizes used here.
CeilSqrt(size) == CHOOSE r \in 0..size : r * r >= size /\ (r = 0 \/ (r - 1) * (r - 1) < size)

\* ------------------------- Van_Emde_Boas ---------------------------------
RECURSIVE Van_Emde_Boas(_)
Van_Emde_Boas(size) ==
    IF size <= 2
    THEN [universe_size |-> size, minimum |-> -1, maximum |-> -1,
          summary |-> nullptr, clusters |-> [i \in {} |-> nullptr]]
    ELSE LET no_clusters == CeilSqrt(size)
         IN  [universe_size |-> size, minimum |-> -1, maximum |-> -1,
              summary |-> Van_Emde_Boas(no_clusters),
              clusters |-> [i \in 0..(no_clusters - 1) |-> Van_Emde_Boas(CeilSqrt(size))]]

clusters_size(node) == Cardinality(DOMAIN node.clusters)

high(node, x) == LET d == CeilSqrt(node.universe_size) IN c_div(x, d)
low_as_high(node, x) == LET m == CeilSqrt(node.universe_size) IN c_div(x, m)
low(node, x) == LET m == CeilSqrt(node.universe_size) IN c_mod(x, m)
generate_index(node, x, y) == LET ru == CeilSqrt(node.universe_size) IN x * ru + y

empty(node) == node.minimum = -1

empty_insert(node, x) == [node EXCEPT !.minimum = x, !.maximum = x]

RECURSIVE contains(_, _)
contains(node, x) ==
    IF x = node.minimum \/ x = node.maximum THEN TRUE
    ELSE IF node.universe_size <= 2 THEN FALSE
    ELSE LET h == high(node, x)
             l == low(node, x)
         IN  IF h < 0 \/ h >= clusters_size(node) THEN FALSE
             ELSE IF node.clusters[h] = nullptr \/ empty(node.clusters[h]) THEN FALSE
             ELSE contains(node.clusters[h], l)

RECURSIVE insert(_, _)

\* line 74: if (x < minimum) std::swap(x, minimum);
swap_min_lost(node, x) ==
    IF x < node.minimum THEN [x |-> x, minimum |-> x]
    ELSE [x |-> x, minimum |-> node.minimum]
swap_min(node, x) ==
    IF x < node.minimum THEN [x |-> node.minimum, minimum |-> x]
    ELSE [x |-> x, minimum |-> node.minimum]

\* lines 76-85: the cluster step of insert, for the (already swapped) key x
insert_cluster_no_summary(node, x) ==
    IF node.universe_size > 2
    THEN LET h == high(node, x)
             l == low(node, x)
         IN  IF node.clusters[h].minimum = -1
             THEN [node EXCEPT !.clusters[h] = empty_insert(node.clusters[h], l)]
             ELSE [node EXCEPT !.clusters[h] = insert(node.clusters[h], l)]
    ELSE node
insert_cluster(node, x) ==
    IF node.universe_size > 2
    THEN LET h == high(node, x)
             l == low(node, x)
         IN  IF node.clusters[h].minimum = -1
             THEN [node EXCEPT !.summary = insert(node.summary, h),
                               !.clusters[h] = empty_insert(node.clusters[h], l)]
             ELSE [node EXCEPT !.clusters[h] = insert(node.clusters[h], l)]
    ELSE node

\* line 86: if (x > maximum) maximum = x;
update_max_never(node, x) == node
update_max(node, x) == IF x > node.maximum THEN [node EXCEPT !.maximum = x] ELSE node

insert(node, x) ==
    IF node.minimum = -1 THEN empty_insert(node, x)
    ELSE LET s == swap_min(node, x)
             n1 == [node EXCEPT !.minimum = s.minimum]
             n2 == insert_cluster(n1, s.x)
         IN  update_max(n2, s.x)

RECURSIVE enumerate(_), enumerate_clusters(_, _)
enumerate_leaf_min_only(node) ==
    IF node.minimum = -1 THEN <<>>
    ELSE IF node.universe_size <= 2
         THEN <<node.minimum>>
         ELSE <<node.minimum>> \o enumerate_clusters(node, 0)
\* the keys enumerate appends to out, in the order it appends them
enumerate(node) ==
    IF node.minimum = -1 THEN <<>>
    ELSE IF node.universe_size <= 2
         THEN <<node.minimum>> \o
              (IF node.maximum # -1 /\ node.maximum # node.minimum
               THEN <<node.maximum>> ELSE <<>>)
         ELSE <<node.minimum>> \o enumerate_clusters(node, 0)
\* lines 98-103: the loop over the clusters, from index h on
enumerate_clusters(node, h) ==
    IF h >= clusters_size(node) THEN <<>>
    ELSE IF node.clusters[h] = nullptr \/ node.clusters[h].minimum = -1
         THEN enumerate_clusters(node, h + 1)
         ELSE LET ru == CeilSqrt(node.universe_size)
                  child == enumerate(node.clusters[h])
              IN  [i \in 1..Len(child) |-> h * ru + child[i]]
                  \o enumerate_clusters(node, h + 1)

\* ------------------------------ Arbor ------------------------------------
\* The Arbor object, with the log of the keys handed to veb->insert.
Arbor == [adj |-> adj, id_of |-> id_of, label_of |-> label_of,
          veb |-> veb, U |-> U, inserted |-> inserted]

\* veb->insert(id), line 128
veb_insert(a, id) ==
    [a EXCEPT !.veb = insert(a.veb, id), !.inserted = Append(a.inserted, id)]

\* adj.resize(id + 1) when adj.size() <= id, line 127
adj_resize(a, id) ==
    IF Len(a.adj) <= id
    THEN [a EXCEPT !.adj = a.adj \o [i \in 1..(id + 1 - Len(a.adj)) |-> <<>>]]
    ELSE a

\* the outcome of ensure_node: the Arbor after the call, the id returned
\* (-1 when it throws) and whether it throws
ensure_node_late_check(a, label) ==
    IF label \in DOMAIN a.id_of
    THEN [arbor |-> a, id |-> a.id_of[label], threw |-> FALSE]
    ELSE LET id == Len(a.label_of)
             a1 == [a EXCEPT !.id_of = [l \in DOMAIN a.id_of \cup {label} |->
                                          IF l = label THEN id ELSE a.id_of[l]],
                             !.label_of = Append(a.label_of, label)]
         IN  IF id >= a.U
             THEN [arbor |-> a1, id |-> -1, threw |-> TRUE]
             ELSE [arbor |-> veb_insert(adj_resize(a1, id), id), id |-> id, threw |-> FALSE]
ensure_node_no_insert(a, label) ==
    IF label \in DOMAIN a.id_of
    THEN [arbor |-> a, id |-> a.id_of[label], threw |-> FALSE]
    ELSE LET id == Len(a.label_of)
         IN  IF id >= a.U
             THEN [arbor |-> a, id |-> -1, threw |-> TRUE]
             ELSE LET a1 == [a EXCEPT !.id_of = [l \in DOMAIN a.id_of \cup {label} |->
                                                   IF l = label THEN id ELSE a.id_of[l]],
                                      !.label_of = Append(a.label_of, label)]
                  IN  [arbor |-> adj_resize(a1, id), id |-> id, threw |-> FALSE]
ensure_node(a, label) ==
    IF label \in DOMAIN a.id_of
    THEN [arbor |-> a, id |-> a.id_of[label], threw |-> FALSE]
    ELSE LET id == Len(a.label_of)
         IN  IF id >= a.U
             THEN [arbor |-> a, id |-> -1, threw |-> TRUE]
             ELSE LET a1 == [a EXCEPT !.id_of = [l \in DOMAIN a.id_of \cup {label} |->
                                                   IF l = label THEN id ELSE a.id_of[l]],
                                      !.label_of = Append(a.label_of, label)]
                  IN  [arbor |-> veb_insert(adj_resize(a1, id), id),
                       id |-> id, threw |-> FALSE]

\* the outcome of connect_parent_child: an exception of either ensure_node
\* call leaves the function at once
connect_parent_child(a, parent, child) ==
    LET rp == ensure_node(a, parent)
    IN  IF rp.threw THEN [arbor |-> rp.arbor, threw |-> TRUE]
        ELSE LET rc == ensure_node(rp.arbor, child)
             IN  IF rc.threw THEN [arbor |-> rc.arbor, threw |-> TRUE]
                 ELSE LET p == rp.id
                          c == rc.id
                          a1 == [rc.arbor EXCEPT !.adj[p + 1] = Append(@, c)]
                          a2 == [a1 EXCEPT !.adj[c + 1] = Append(@, p)]
                      IN  [arbor |-> a2, threw |-> FALSE]

\* ------------------------------ state machine ----------------------------
NoResult == [op |-> "none", key |-> -1, val |-> FALSE, threw |-> FALSE]

Init ==
    /\ U \in 1..MaxU
    /\ veb = Van_Emde_Boas(U)
    /\ id_of = [l \in {} |-> 0]
    /\ label_of = <<>>
    /\ adj = <<>>
    /\ inserted = <<>>
    /\ result = NoResult

\* a caller of the index inserts an in-range key
InsertCall(x) ==
    /\ Len(inserted) < MaxInserts
    /\ veb' = insert(veb, x)
    /\ inserted' = Append(inserted, x)
    /\ result' = [op |-> "insert", key |-> x, val |-> FALSE, threw |-> FALSE]
    /\ UNCHANGED <<U, id_of, label_of, adj>>

ContainsCall(k) ==
    /\ result' = [op |-> "contains", key |-> k, val |-> contains(veb, k), threw |-> FALSE]
    /\ UNCHANGED <<U, veb, id_of, label_of, adj, inserted>>

EnumerateCall ==
    /\ result' = [op |-> "enumerate", key |-> -1, val |-> <<>> \o enumerate(veb),
                  threw |-> FALSE]
    /\ UNCHANGED <<U, veb, id_of, label_of, adj, inserted>>

Next ==
    \/ \E x \in 0..(U - 1) : InsertCall(x)
    \/ \E k \in (-1)..(U - 1) : ContainsCall(k)
    \/ EnumerateCall

Spec == Init /\ [][Next]_vars

TotalEdges(a) == LET RECURSIVE sum(_)
                     sum(i) == IF i = 0 THEN 0 ELSE Len(a[i]) + sum(i - 1)
                 IN  sum(Len(a))

SetArbor(a) ==
    /\ adj' = a.adj
    /\ id_of' = a.id_of
    /\ label_of' = a.label_of
    /\ veb' = a.veb
    /\ inserted' = a.inserted
    /\ U' = a.U

EnsureNodeCall(label) ==
    LET r == ensure_node(Arbor, label)
    IN  /\ SetArbor(r.arbor)
        /\ result' = [op |-> "ensure_node", key |-> label, val |-> r.id, threw |-> r.threw]

ConnectCall(parent, child) ==
    /\ TotalEdges(adj) < 2 * MaxEdges
    /\ LET r == connect_parent_child(Arbor, parent, child)
       IN  /\ SetArbor(r.arbor)
           /\ result' = [op |-> "connect_parent_child", key |-> <<parent, child>>,
                         val |-> -1, threw |-> r.threw]

ArborNext ==
    \/ \E label \in Labels : EnsureNodeCall(label)
    \/ \E parent, child \in Labels : ConnectCall(parent, child)

ArborSpec == Init /\ [][ArborNext]_vars

\* ------------------------------ properties -------------------------------
NoDup(s) == \A i, j \in 1..Len(s) : i # j => s[i] # s[j]

MinOf(S) == CHOOSE m \in S : \A k \in S : m <= k
MaxOf(S) == CHOOSE m \in S : \A k \in S : m >= k

RECURSIVE Ascending(_)
\* the elements of the finite set S of integers in ascending order
Ascending(S) == IF S = {} THEN <<>> ELSE <<MinOf(S)>> \o Ascending(S \ {MinOf(S)})

Keys == 0..(U - 1)

\* C1: after inserting each element of a set S of distinct keys of [0, U)
\* once, in any order, contains(k) is true for every k in S and false for
\* every other k of [0, U).
MembershipRoundTrip ==
    NoDup(inserted) =>
        /\ \A k \in Keys : contains(veb, k) <=> k \in Range(inserted)
        /\ (result.op = "contains" /\ result.key \in Keys)
               => (result.val <=> result.key \in Range(inserted))

MembershipRoundTripWitness ==
    /\ U = 5 /\ NoDup(inserted) /\ Len(inserted) = 4
    /\ inserted[1] > inserted[2]
    /\ result.op = "contains" /\ result.key \in Keys /\ result.val = FALSE

\* C2: after inserting each element of a set S of distinct keys once, in any
\* order, enumerate() produces exactly the elements of S in strictly
\* ascending order.
EnumerationFidelity ==
    NoDup(inserted) =>
        /\ enumerate(veb) = Ascending(Range(inserted))
        /\ result.op = "enumerate" => result.val = Ascending(Range(inserted))

EnumerationFidelityWitness ==
    /\ U >= 5 /\ NoDup(inserted) /\ Len(inserted) = 4
    /\ inserted[1] > inserted[2] /\ inserted[2] < inserted[3]
    /\ result.op = "enumerate" /\ Len(result.val) = 4

\* C3: insert is idempotent: a second insert(x) right after insert(x) changes
\* neither the result of contains(k) for any k of [0, U) nor the output of
\* enumerate().
InsertIdempotent ==
    [][(/\ inserted # <<>>
        /\ inserted' = Append(inserted, inserted[Len(inserted)]))
       => /\ \A k \in Keys : contains(veb', k) <=> contains(veb, k)
          /\ enumerate(veb') = enumerate(veb)]_vars

\* C4: the root's minimum and maximum are the smallest and the largest key
\* inserted so far (duplicates allowed); both are the sentinel -1 exactly when
\* nothing was inserted, and otherwise minimum <= maximum.
RootMinMax ==
    IF inserted = <<>>
    THEN veb.minimum = -1 /\ veb.maximum = -1
    ELSE /\ veb.minimum = MinOf(Range(inserted))
         /\ veb.maximum = MaxOf(Range(inserted))
         /\ veb.minimum # -1 /\ veb.maximum # -1
         /\ veb.minimum <= veb.maximum

RootMinMaxWitness ==
    /\ U >= 5 /\ Len(inserted) = 4 /\ ~NoDup(inserted)
    /\ inserted[1] < inserted[2] /\ inserted[3] < inserted[1]
    /\ veb.minimum < veb.maximum

\* C6: on an index into which no key was inserted, contains(x) returns false
\* for every x queried, the sentinel value -1 included.
EmptyContainsFalse ==
    (inserted = <<>> /\ result.op = "contains") => result.val = FALSE

RECURSIVE summary_tracks_clusters(_)
summary_tracks_clusters(n) ==
    n.universe_size > 2 =>
        /\ \A h \in DOMAIN n.clusters :
               /\ contains(n.summary, h) <=> ~empty(n.clusters[h])
               /\ summary_tracks_clusters(n.clusters[h])
        /\ summary_tracks_clusters(n.summary)

\* C7: at every node with universe_size > 2 and for every cluster index h,
\* summary.contains(h) holds if and only if clusters[h] is non-empty
\* (duplicates allowed).
SummaryInvariant == summary_tracks_clusters(veb)

SummaryInvariantWitness ==
    /\ U >= 5 /\ ~NoDup(inserted)
    /\ \E h, g \in DOMAIN veb.clusters :
           /\ ~empty(veb.clusters[h]) /\ contains(veb.summary, h)
           /\ empty(veb.clusters[g]) /\ ~contains(veb.summary, g)
    /\ \E h \in DOMAIN veb.clusters : veb.clusters[h].summary.minimum # -1

RECURSIVE minimum_only_at_node(_)
minimum_only_at_node(n) ==
    n.universe_size > 2 =>
        /\ n.minimum # -1 =>
               ~contains(n.clusters[high(n, n.minimum)], low(n, n.minimum))
        /\ \A h \in DOMAIN n.clusters : minimum_only_at_node(n.clusters[h])
        /\ minimum_only_at_node(n.summary)

\* C8: at every node with universe_size > 2 the node's minimum is never
\* stored inside one of its clusters: clusters[high(minimum)] does not
\* contain low(minimum).
MinimumNotInCluster == minimum_only_at_node(veb)

RECURSIVE insert_calls_in_range(_, _)
\* insert(x) on node, and every insert it calls on a cluster or on the
\* summary, is given a key of the callee's universe and indexes clusters
\* inside [0, clusters.size())
insert_calls_in_range(node, x) ==
    /\ x \in 0..(node.universe_size - 1)
    /\ (node.minimum # -1 /\ node.universe_size > 2) =>
           LET s == swap_min(node, x)
               h == high(node, s.x)
               l == low(node, s.x)
           IN  /\ 0 <= h /\ h < clusters_size(node)
               /\ h \in DOMAIN node.clusters
               /\ IF node.clusters[h].minimum = -1
                  THEN /\ insert_calls_in_range(node.summary, h)
                       /\ l \in 0..(node.clusters[h].universe_size - 1)
                  ELSE insert_calls_in_range(node.clusters[h], l)

RECURSIVE contains_calls_in_range(_, _)
\* the same for contains(x) and the contains it calls on a cluster
contains_calls_in_range(node, x) ==
    /\ x \in 0..(node.universe_size - 1)
    /\ (x # node.minimum /\ x # node.maximum /\ node.universe_size > 2) =>
           LET h == high(node, x)
               l == low(node, x)
           IN  /\ h \in DOMAIN node.clusters
               /\ ~empty(node.clusters[h]) => contains_calls_in_range(node.clusters[h], l)

RECURSIVE decomposition_in_range(_)
\* the sizing rule and the high/low decomposition at node n and below it
decomposition_in_range(n) ==
    n.universe_size > 2 =>
        LET r == clusters_size(n)
            u == n.universe_size
        IN  /\ r * r >= u /\ (r - 1) * (r - 1) < u
            /\ DOMAIN n.clusters = 0..(r - 1)
            /\ n.summary.universe_size = r
            /\ \A h \in DOMAIN n.clusters : n.clusters[h].universe_size = r
            /\ \A x \in 0..(u - 1) :
                   /\ high(n, x) \in 0..(r - 1)
                   /\ low(n, x) \in 0..(r - 1)
                   /\ high(n, x) * r + low(n, x) = x
                   /\ generate_index(n, high(n, x), low(n, x)) = x
            /\ \A h \in DOMAIN n.clusters : decomposition_in_range(n.clusters[h])
            /\ decomposition_in_range(n.summary)

\* C9: every node with universe_size = u > 2 has exactly r = ceil(sqrt(u))
\* clusters and a summary, each of universe_size r; for every key x of
\* [0, u), high(x) and low(x) are in [0, r) and high(x) * r + low(x) = x; and
\* with root keys in [0, U) every recursive insert or contains call gets a
\* key of the callee's universe and never indexes outside the clusters.
DecompositionInRange ==
    /\ decomposition_in_range(veb)
    /\ \A x \in Keys : insert_calls_in_range(veb, x) /\ contains_calls_in_range(veb, x)

DecompositionInRangeWitness ==
    /\ U >= 5 /\ Len(inserted) >= 4
    /\ veb.summary.universe_size > 2
    /\ veb.summary.summary.minimum # -1
    /\ \E h \in DOMAIN veb.clusters : veb.clusters[h].summary.minimum # -1

\* the registry half of the Arbor is left as it was
RegistryUnchanged == UNCHANGED <<id_of, label_of, adj, veb, inserted>>

\* C5: the registry never calls insert with a key >= U; an ensure_node given
\* a new label when U identifiers are allocated throws before calling insert
\* and leaves id_of, label_of, adj and the index unchanged (also when it is
\* the first or the second ensure_node of connect_parent_child).
CapacityChecked ==
    [][/\ \A i \in 1..Len(inserted') : inserted'[i] < U
       /\ (result'.op = "ensure_node" /\ result'.key \notin DOMAIN id_of
               /\ Len(label_of) >= U)
              => (result'.threw /\ RegistryUnchanged)
       /\ result'.op = "connect_parent_child" =>
              LET p == result'.key[1]
                  c == result'.key[2]
              IN  /\ (p \notin DOMAIN id_of /\ Len(label_of) >= U)
                         => (result'.threw /\ RegistryUnchanged)
                  /\ (p \in DOMAIN id_of /\ c \notin DOMAIN id_of /\ Len(label_of) >= U)
                         => (result'.threw /\ RegistryUnchanged)
                  /\ (p \notin DOMAIN id_of /\ c \notin DOMAIN id_of /\ c # p
                          /\ Len(label_of) = U - 1)
                         => /\ result'.threw
                            /\ label_of' = Append(label_of, p)
                            /\ DOMAIN id_of' = DOMAIN id_of \cup {p}
                            /\ inserted' = Append(inserted, U - 1)
                            /\ adj' = Append(adj, <<>>)]_vars

CapacityCheckedWitness ==
    /\ U >= 2 /\ Len(label_of) = U
    /\ result.op = "connect_parent_child" /\ result.threw
    /\ result.key[2] \notin DOMAIN id_of
    /\ TotalEdges(adj) > 0

\* C10: with n = Len(label_of), the index was handed exactly the keys
\* 0, 1, ..., n-1, each once and in increasing order, it holds exactly the
\* keys {0, ..., n-1}, n <= U, and id_of maps each label to its position in
\* label_of.
RegistryIndexConsistent ==
    LET n == Len(label_of)
    IN  /\ n <= U
        /\ inserted = [i \in 1..n |-> i - 1]
        /\ enumerate(veb) = [i \in 1..n |-> i - 1]
        /\ \A k \in Keys : contains(veb, k) <=> k < n
        /\ DOMAIN id_of = Range(label_of)
        /\ \A l \in DOMAIN id_of : id_of[l] \in 0..(n - 1) /\ label_of[id_of[l] + 1] = l
        /\ NoDup(label_of)

RegistryIndexConsistentWitness ==
    /\ U = 3 /\ Len(label_of) = 3
    /\ result.threw
    /\ TotalEdges(adj) = 2 * MaxEdges

====
